---- MODULE Spec2Model ----
(***************************************************************************)
(* NYOS-APR front end: the chat session of components/Chat.jsx, with the   *)
(* HTTP client of api.js (src/unnamed/part_000) and the backend it talks   *)
(* to as the environment, and the tabs of App that mount and unmount it.    *)
(*                                                                          *)
(* React semantics kept by the model:                                       *)
(*  - a handler invoked by the user reads the state of the latest render;   *)
(*  - the code after an await keeps the values its closure captured when    *)
(*    the handler was invoked (input, currentConvId, loading), while        *)
(*    setX(prev => ...) reads the state at the time it is applied;          *)
(*  - the code between two awaits runs as one step.                         *)
(* Every request is answered in two steps: the backend handles it (and      *)
(* changes its own state), then the response reaches the client, in any     *)
(* order relative to the other requests; a request can fail before or       *)
(* after the backend has handled it. api.js returns res.json() without      *)
(* looking at res.ok: a non-success response with a JSON body fulfils the   *)
(* await with the error object.                                             *)
(***************************************************************************)
EXTENDS Bags, FiniteSets, Integers, Naturals, Sequences, TLC

\* ---------------------------------------------------------------- bounds
\* user operations that issue a request (select, create, delete, accepted
\* send) or leave the chat tab
MaxOps == 2
\* edits of the input (typing in the box, clicking a suggestion)
MaxEdits == 1
\* requests the backend answers with a non-success status and a JSON body
MaxRefusals == 1
\* conversations that exist on the backend before the component mounts
MaxInitConvs == 1

\* the ids the backend can come to allocate: every user operation creates at
\* most one conversation
MaxConvId == MaxInitConvs + MaxOps

\* ---------------------------------------------------------------- values
\* currentConvId === null
Null == 0

\* the id of an object that has none: conv.id of an error body is undefined
Undef == -1

\* !convId
Falsy(id) == id \in {Null, Undef}

ConvIds == 1..MaxConvId

\* the ids a listed row can carry
RowIds == ConvIds \cup {Undef}

\* texts the user can put in the input box
Inputs == {"", "  ", " a"}

\* the texts of the suggestion buttons
Suggestions ==
  {"What is the overall status?", "Concerning trends?", "Customer complaints",
   "Press-A performance"}

\* String.prototype.trim on the texts of Inputs and Suggestions (a suggestion
\* has no outer whitespace)
Trim(s) ==
  CASE s = "  " -> ""
    [] s = " a" -> "a"
    [] OTHER -> s

\* the fixed fallback of handleSubmit's catch
ConnectionError == "Connection error."

\* response.response of POST /chat/{id} for a message
Reply(text) == "re:" \o text

\* response.response of an error body: undefined
NoContent == "undefined"

\* a message object; conv records the conversation the entry belongs to
\* (the one whose history, or whose send, produced it)
Msg(role, content, conv) == [role |-> role, content |-> content, conv |-> conv]

Range(s) == {s[i] : i \in 1..Len(s)}

\* prev.filter(c => c.id !== convId)
RECURSIVE Without(_, _)
Without(s, id) ==
  IF s = <<>> THEN <<>>
  ELSE IF Head(s) = id THEN Without(Tail(s), id)
       ELSE <<Head(s)>> \o Without(Tail(s), id)

\* the exchange a conversation that predates the session already holds
OldHistory(c) == <<Msg("user", "a", c), Msg("assistant", Reply("a"), c)>>

\* an error body where the code expects the array of conversations: the
\* object {"detail": ...}, which has no length and no map
ErrorObject == -2
NotArray == <<ErrorObject>>

\* an error body where the code expects the array of messages
NotMessages == <<Msg("error", "detail", Null)>>

\* <<k, ..., 1>>: the backend lists the most recent conversation first
RECURSIVE Descending(_)
Descending(k) == IF k = 0 THEN <<>> ELSE <<k>> \o Descending(k - 1)

\* ---------------------------------------------------------------- state
VARIABLES
  conversations,   \* useState([]): ids of the listed conversations
  currentConvId,   \* useState(null)
  messages,        \* useState([])
  input,           \* useState('')
  loading,         \* useState(false)
  appView,         \* what App shows: "chat" (Chat mounted), "other" (another
                   \* tab, Chat unmounted), "crashed" (a render of Chat threw)
  tasks,           \* bag of the async invocations suspended at an await
  serverConvs,     \* backend: conversation ids, most recent first
  serverHist,      \* backend: history of each conversation id
  serverNext,      \* backend: next id to allocate
  nOps,            \* user operations issued so far
  nEdits,          \* edits of the input so far
  nRefused,        \* requests the backend has refused so far
  lastEvent        \* what the last step did

chatVars == <<conversations, currentConvId, messages, input, loading, appView>>
serverVars == <<serverConvs, serverHist, serverNext>>
vars == <<conversations, currentConvId, messages, input, loading, appView, tasks,
          serverConvs, serverHist, serverNext, nOps, nEdits, nRefused,
          lastEvent>>

\* an async invocation suspended at an await:
\*   kind   the request it awaits
\*   conv   the conversation the request is addressed to
\*   cur    currentConvId as captured by the closure that issued it
\*   text   input as captured by the closure (handleSubmit)
\*   st     "sent": not yet handled by the backend; "ok": response on its
\*          way; "refused": a non-success response with a JSON error body on
\*          its way
\*   convs, msgs, id   the response payload
\*   live   the Chat instance that issued it is still mounted
Task(kind, conv, cur, text) ==
  [kind |-> kind, conv |-> conv, cur |-> cur, text |-> text,
   st |-> "sent", convs |-> <<>>, msgs |-> <<>>, id |-> Null, live |-> TRUE]

\* the same invocation once its Chat instance is gone: its setState calls do
\* nothing, its requests and the calls it goes on to make still happen
Orphan(t) == [t EXCEPT !.live = FALSE]

OrphanAll(bag) ==
  LET S == {Orphan(t) : t \in BagToSet(bag)}
      Copies(t) == IF t \in BagToSet(bag) THEN bag[t] ELSE 0
  IN  [o \in S |-> Copies(o) + Copies([o EXCEPT !.live = TRUE])]

Event(op, conv, text) == [op |-> op, conv |-> conv, text |-> text]

Suspend(t) == tasks (+) SetToBag({t})
Resume(t) == tasks (-) SetToBag({t})

\* every request under way, and the invocations of the mounted Chat
Requests == BagToSet(tasks)
Waiting == {t \in Requests : t.live}
Orphans == {t \in Requests : ~t.live}

\* number of suspended invocations awaiting a request of this kind
InFlight(kind) ==
  LET S == {t \in Waiting : t.kind = kind}
  IN  BagCardinality([t \in S |-> tasks[t]])

\* ---------------------------------------------------------------- stream state
\* api.streamSummary(onChunk, onDone, onError): the EventSource it returns,
\* what reached it, and what it called back
VARIABLES
  readyState,      \* eventSource.readyState: "open" until close()
  inbound,         \* what happened to the channel so far, in order
  calls            \* the callback invocations so far, in order

streamVars == <<readyState, inbound, calls>>

\* no summary stream has been opened
StreamIdle == readyState = "closed" /\ inbound = <<>> /\ calls = <<>>

\* ------------------------------------------------------------- Analytics state
\* the Analytics component: App mounts it only while its tab is shown
VARIABLES
  overview,          \* useState(null), then the body of /analytics/overview
  yearly,            \* likewise, /analytics/yearly-summary
  suppliers,         \* likewise, /analytics/supplier-performance
  equipment,         \* likewise, /analytics/equipment-analysis
  comparison,        \* likewise, /analytics/period-comparison
  analyticsLoading,  \* Analytics' loading
  requests,          \* how each of the five requests of loadAllData has settled
  rendered           \* what the last render returned: the screen and its chart data

analyticsVars ==
  <<overview, yearly, suppliers, equipment, comparison, analyticsLoading,
    requests, rendered>>

published == <<overview, yearly, suppliers, equipment, comparison>>

Resources == {"overview", "yearly", "suppliers", "equipment", "comparison"}

\* loadAllData invocations on one mounted Analytics
MaxCycles == 2

Cycles == 1..MaxCycles

\* the invocations of loadAllData, each with its own Promise.all
VARIABLES
  loads,    \* per invocation, how each of its five requests has settled
  joins,    \* per invocation, its Promise.all: none, pending, fulfilled, rejected
  settled   \* the invocations whose Promise.all has settled, in that order

cycleVars == <<loads, joins, settled>>

\* no invocation is being followed
CyclesIdle ==
  /\ loads = [k \in Cycles |-> [r \in Resources |-> "none"]]
  /\ joins = [k \in Cycles |-> "none"]
  /\ settled = <<>>

\* a JavaScript value where a number is expected: undefined, null or a number
Undefined == [tag |-> "undefined", n |-> 0]
JsNull == [tag |-> "null", n |-> 0]
Num(n) == [tag |-> "number", n |-> n]

\* the component has not rendered
NotRendered == [screen |-> "none", data |-> <<>>]

\* Analytics is not mounted
AnalyticsIdle ==
  /\ overview = JsNull
  /\ yearly = JsNull
  /\ suppliers = JsNull
  /\ equipment = JsNull
  /\ comparison = JsNull
  /\ analyticsLoading = TRUE
  /\ requests = [r \in Resources |-> "none"]
  /\ rendered = NotRendered
  /\ CyclesIdle

\* the other components are left alone by a step of the chat session
ChatOnly == UNCHANGED <<streamVars, analyticsVars, cycleVars>>

\* the state after construction: first render, then the mount effect
\* (useEffect(() => { loadConversations(); }, [])) has issued the list request
Init ==
  /\ conversations = <<>>
  /\ currentConvId = Null
  /\ messages = <<>>
  /\ input = ""
  /\ loading = FALSE
  /\ appView = "chat"
  /\ tasks = SetToBag({Task("list", Null, Null, "")})
  /\ \E k \in 0..MaxInitConvs :
       /\ serverConvs = Descending(k)
       /\ serverNext = k + 1
       /\ serverHist = [c \in ConvIds |-> IF c <= k THEN OldHistory(c) ELSE <<>>]
  /\ nOps = 0
  /\ nEdits = 0
  /\ nRefused = 0
  /\ lastEvent = Event("mount", Null, "")
  /\ StreamIdle
  /\ AnalyticsIdle


\* ---------------------------------------------------------------- the user
\* Chat is rendered: the user can act on it
Shown == appView = "chat"

\* onChange of the input box, which is disabled while loading: setInput(v)
SetInput(v) ==
  /\ Shown
  /\ nEdits < MaxEdits
  /\ ~loading
  /\ v # input
  /\ input' = v
  /\ nEdits' = nEdits + 1
  /\ lastEvent' = Event("setInput", Null, "")
  /\ UNCHANGED <<conversations, currentConvId, messages, loading, appView, tasks,
                 serverVars, nOps, nRefused>>

\* onClick of a suggestion button, rendered while messages is empty:
\* setInput(s)
ClickSuggestion(s) ==
  /\ Shown
  /\ nEdits < MaxEdits
  /\ messages = <<>>
  /\ s # input
  /\ input' = s
  /\ nEdits' = nEdits + 1
  /\ lastEvent' = Event("setInput", Null, "")
  /\ UNCHANGED <<conversations, currentConvId, messages, loading, appView, tasks,
                 serverVars, nOps, nRefused>>

\* ---------------------------------------------------------------- Chat.jsx
\* loadConversations() up to its await: the list request is issued by a
\* closure that captured currentConvId = cur
loadConversations(cur, rest) == rest (+) SetToBag({Task("list", Null, cur, "")})

\* selectConversation(convId) up to its await
selectConversation(convId, rest) ==
  /\ currentConvId' = convId
  /\ tasks' = rest (+) SetToBag({Task("history", convId, Null, "")})

\* what the catch of loadConversations leaves in conversations
ListFallback(prev) == prev

\* what the catch of selectConversation puts in messages
HistoryFallback(prev) == <<>>

\* the early return of handleSubmit: !input.trim() || loading
SubmitBlocked_untrimmed(inp, ld) == inp = "" \/ ld
SubmitBlocked(inp, ld) == Trim(inp) = "" \/ ld

\* conversations.map or messages.map is called on an object and the render
\* throws: React removes the whole tree, Chat and App with it
Crash(rest) ==
  /\ appView' = "crashed"
  /\ tasks' = OrphanAll(rest)

\* loadConversations after the await resolved
LoadConversationsResolved(t) ==
  /\ t.kind = "list" /\ t.st = "ok"
  /\ conversations' = t.convs
  /\ IF Len(t.convs) > 0 /\ Falsy(t.cur)
       THEN selectConversation(Head(t.convs), Resume(t))
       ELSE tasks' = Resume(t) /\ UNCHANGED currentConvId
  /\ lastEvent' = Event("listOk", Null, "")
  /\ UNCHANGED <<messages, input, loading, appView, serverVars, nOps, nEdits, nRefused>>

\* loadConversations after the await fulfilled with an error body:
\* setConversations(convs) with the object, convs.length > 0 is false, and
\* the next render throws
LoadConversationsRefused(t) ==
  /\ t.kind = "list" /\ t.st = "refused"
  /\ conversations' = NotArray
  /\ Crash(Resume(t))
  /\ lastEvent' = Event("listRefused", Null, "")
  /\ UNCHANGED <<currentConvId, messages, input, loading, serverVars, nOps, nEdits, nRefused>>

\* loadConversations after the await rejected: console.error(e)
LoadConversationsRejected(t) ==
  /\ t.kind = "list"
  /\ conversations' = ListFallback(conversations)
  /\ tasks' = Resume(t)
  /\ lastEvent' = Event("listFail", Null, "")
  /\ UNCHANGED <<currentConvId, messages, input, loading, appView, serverVars,
                 nOps, nEdits, nRefused>>

\* onClick of a listed row: selectConversation(conv.id)
ClickConversation(id) ==
  /\ Shown
  /\ nOps < MaxOps
  /\ id \in Range(conversations)
  /\ selectConversation(id, tasks)
  /\ nOps' = nOps + 1
  /\ UNCHANGED <<nEdits, nRefused>>
  /\ lastEvent' = Event("select", id, "")
  /\ UNCHANGED <<conversations, messages, input, loading, appView, serverVars>>

\* selectConversation after the await resolved: setMessages(history)
SelectConversationResolved(t) ==
  /\ t.kind = "history" /\ t.st = "ok"
  /\ messages' = t.msgs
  /\ tasks' = Resume(t)
  /\ lastEvent' = Event("historyOk", t.conv, "")
  /\ UNCHANGED <<conversations, currentConvId, input, loading, appView,
                 serverVars, nOps, nEdits, nRefused>>

\* selectConversation after the await fulfilled with an error body:
\* setMessages(history) with the object, and the next render throws
SelectConversationRefused(t) ==
  /\ t.kind = "history" /\ t.st = "refused"
  /\ messages' = NotMessages
  /\ Crash(Resume(t))
  /\ lastEvent' = Event("historyRefused", t.conv, "")
  /\ UNCHANGED <<conversations, currentConvId, input, loading, serverVars, nOps, nEdits, nRefused>>

\* selectConversation after the await rejected: setMessages([])
SelectConversationRejected(t) ==
  /\ t.kind = "history"
  /\ messages' = HistoryFallback(messages)
  /\ tasks' = Resume(t)
  /\ lastEvent' = Event("historyFail", t.conv, "")
  /\ UNCHANGED <<conversations, currentConvId, input, loading, appView,
                 serverVars, nOps, nEdits, nRefused>>

\* onClick of "New conversation": createNewConversation() up to its await
createNewConversation ==
  /\ Shown
  /\ nOps < MaxOps
  /\ tasks' = Suspend(Task("create", Null, currentConvId, ""))
  /\ nOps' = nOps + 1
  /\ UNCHANGED <<nEdits, nRefused>>
  /\ lastEvent' = Event("create", Null, "")
  /\ UNCHANGED <<chatVars, serverVars>>

\* createNewConversation after the await resolved
CreateNewConversationResolved(t) ==
  /\ t.kind = "create" /\ t.st = "ok"
  /\ conversations' = <<t.id>> \o conversations
  /\ currentConvId' = t.id
  /\ messages' = <<>>
  /\ tasks' = Resume(t)
  /\ lastEvent' = Event("createOk", t.id, "")
  /\ UNCHANGED <<input, loading, appView, serverVars, nOps, nEdits, nRefused>>

\* createNewConversation after the await fulfilled with an error body: the
\* object, which has no id, is listed and the handler goes on as after a
\* success
CreateNewConversationRefused(t) ==
  /\ t.kind = "create" /\ t.st = "refused"
  /\ conversations' = <<Undef>> \o conversations
  /\ currentConvId' = Undef
  /\ messages' = <<>>
  /\ tasks' = Resume(t)
  /\ lastEvent' = Event("createRefused", Null, "")
  /\ UNCHANGED <<input, loading, appView, serverVars, nOps, nEdits, nRefused>>

\* createNewConversation after the await rejected: console.error(e)
CreateNewConversationRejected(t) ==
  /\ t.kind = "create"
  /\ tasks' = Resume(t)
  /\ lastEvent' = Event("createFail", Null, "")
  /\ UNCHANGED <<chatVars, serverVars, nOps, nEdits, nRefused>>

\* onClick of a row's trash button: deleteConversation(conv.id) up to its
\* await
deleteConversation(id) ==
  /\ Shown
  /\ nOps < MaxOps
  /\ id \in Range(conversations)
  /\ tasks' = Suspend(Task("delete", id, currentConvId, ""))
  /\ nOps' = nOps + 1
  /\ UNCHANGED <<nEdits, nRefused>>
  /\ lastEvent' = Event("delete", id, "")
  /\ UNCHANGED <<chatVars, serverVars>>

\* deleteConversation after the await resolved; currentConvId === convId
\* compares the value the closure captured
DeleteConversationResolved(t) ==
  /\ t.kind = "delete" /\ t.st = "ok"
  /\ conversations' = Without(conversations, t.conv)
  /\ IF t.cur = t.conv
       THEN currentConvId' = Null /\ messages' = <<>>
       ELSE UNCHANGED <<currentConvId, messages>>
  /\ tasks' = Resume(t)
  /\ lastEvent' = Event("deleteOk", t.conv, "")
  /\ UNCHANGED <<input, loading, appView, serverVars, nOps, nEdits, nRefused>>

\* deleteConversation after the await fulfilled with an error body: the
\* handler goes on as after a success
DeleteConversationRefused(t) ==
  /\ t.kind = "delete" /\ t.st = "refused"
  /\ conversations' = Without(conversations, t.conv)
  /\ IF t.cur = t.conv
       THEN currentConvId' = Null /\ messages' = <<>>
       ELSE UNCHANGED <<currentConvId, messages>>
  /\ tasks' = Resume(t)
  /\ lastEvent' = Event("deleteRefused", t.conv, "")
  /\ UNCHANGED <<input, loading, appView, serverVars, nOps, nEdits, nRefused>>

\* deleteConversation after the await rejected: console.error(e)
DeleteConversationRejected(t) ==
  /\ t.kind = "delete"
  /\ tasks' = Resume(t)
  /\ lastEvent' = Event("deleteFail", t.conv, "")
  /\ UNCHANGED <<chatVars, serverVars, nOps, nEdits, nRefused>>

\* handleSubmit from the optimistic append to the await of api.chat; text and
\* cur are the input and currentConvId the closure captured
sendTurn(convId, text, cur, rest) ==
  /\ messages' = Append(messages, Msg("user", text, convId))
  /\ input' = ""
  /\ loading' = TRUE
  /\ tasks' = rest (+) SetToBag({Task("chat", convId, cur, text)})

\* onSubmit of the form: handleSubmit(e) up to its first await
handleSubmit ==
  /\ Shown
  /\ IF SubmitBlocked(input, loading)
       THEN /\ lastEvent' = Event("submitNoop", Null, input)
            /\ UNCHANGED <<chatVars, tasks, serverVars, nOps, nEdits, nRefused>>
       ELSE /\ nOps < MaxOps
            /\ nOps' = nOps + 1
            /\ UNCHANGED <<nEdits, nRefused>>
            /\ IF Falsy(currentConvId)
                 THEN /\ tasks' = Suspend(Task("submitCreate", Null, currentConvId, input))
                      /\ lastEvent' = Event("submitCreate", Null, input)
                      /\ UNCHANGED <<chatVars, serverVars>>
                 ELSE /\ sendTurn(currentConvId, input, currentConvId, tasks)
                      /\ lastEvent' = Event("submitChat", currentConvId, input)
                      /\ UNCHANGED <<conversations, currentConvId, appView,
                                     serverVars>>

\* handleSubmit after await api.createConversation() resolved
HandleSubmitCreated(t) ==
  /\ t.kind = "submitCreate" /\ t.st = "ok"
  /\ conversations' = <<t.id>> \o conversations
  /\ currentConvId' = t.id
  /\ sendTurn(t.id, t.text, t.cur, Resume(t))
  /\ lastEvent' = Event("submitCreated", t.id, t.text)
  /\ UNCHANGED <<appView, serverVars, nOps, nEdits, nRefused>>

\* handleSubmit after await api.createConversation() fulfilled with an error
\* body: the object is listed, convId = conv.id is undefined, and the send
\* goes on to /chat/undefined
HandleSubmitCreateRefused(t) ==
  /\ t.kind = "submitCreate" /\ t.st = "refused"
  /\ conversations' = <<Undef>> \o conversations
  /\ currentConvId' = Undef
  /\ sendTurn(Undef, t.text, t.cur, Resume(t))
  /\ lastEvent' = Event("submitCreateRefused", Undef, t.text)
  /\ UNCHANGED <<appView, serverVars, nOps, nEdits, nRefused>>

\* handleSubmit after await api.createConversation() rejected: the await is
\* outside the try, the promise handleSubmit returned rejects
HandleSubmitCreateRejected(t) ==
  /\ t.kind = "submitCreate"
  /\ tasks' = Resume(t)
  /\ lastEvent' = Event("submitUnhandled", Null, t.text)
  /\ UNCHANGED <<chatVars, serverVars, nOps, nEdits, nRefused>>

\* handleSubmit after await api.chat() resolved: the reply, the refresh of
\* the list by the loadConversations of the same closure, then finally
HandleSubmitReplied(t) ==
  /\ t.kind = "chat" /\ t.st = "ok"
  /\ messages' = Append(messages, Msg("assistant", Reply(t.text), t.conv))
  /\ tasks' = loadConversations(t.cur, Resume(t))
  /\ loading' = FALSE
  /\ lastEvent' = Event("chatOk", t.conv, t.text)
  /\ UNCHANGED <<conversations, currentConvId, input, appView, serverVars, nOps, nEdits, nRefused>>

\* handleSubmit after await api.chat() fulfilled with an error body: the
\* reply is response.response, undefined; the rest as after a success
HandleSubmitRefused(t) ==
  /\ t.kind = "chat" /\ t.st = "refused"
  /\ messages' = Append(messages, Msg("assistant", NoContent, t.conv))
  /\ tasks' = loadConversations(t.cur, Resume(t))
  /\ loading' = FALSE
  /\ lastEvent' = Event("chatRefused", t.conv, t.text)
  /\ UNCHANGED <<conversations, currentConvId, input, appView, serverVars, nOps, nEdits, nRefused>>

\* handleSubmit after await api.chat() rejected: the fallback, then finally
HandleSubmitFailed(t) ==
  /\ t.kind = "chat"
  /\ messages' = Append(messages, Msg("assistant", ConnectionError, t.conv))
  /\ tasks' = Resume(t)
  /\ loading' = FALSE
  /\ lastEvent' = Event("chatFail", t.conv, t.text)
  /\ UNCHANGED <<conversations, currentConvId, input, appView, serverVars, nOps, nEdits, nRefused>>

\* ---------------------------------------------------------------- App
\* onClick of another tab: setActiveTab(tab.id); Chat is unmounted and its
\* state discarded, the invocations it left suspended go on without it
LeaveChat ==
  /\ Shown
  /\ nOps < MaxOps
  /\ appView' = "other"
  /\ conversations' = <<>>
  /\ currentConvId' = Null
  /\ messages' = <<>>
  /\ input' = ""
  /\ loading' = FALSE
  /\ tasks' = OrphanAll(tasks)
  /\ nOps' = nOps + 1
  /\ UNCHANGED <<nEdits, nRefused>>
  /\ lastEvent' = Event("unmount", Null, "")
  /\ UNCHANGED serverVars

\* onClick of the chat tab: a new Chat is mounted, with the initial state,
\* and its mount effect issues the list request
EnterChat ==
  /\ appView = "other"
  /\ appView' = "chat"
  /\ tasks' = loadConversations(Null, tasks)
  /\ lastEvent' = Event("mount", Null, "")
  /\ UNCHANGED <<conversations, currentConvId, messages, input, loading,
                 serverVars, nOps, nEdits, nRefused>>

\* the calls an invocation goes on to make after its await when its Chat is
\* gone: the setState calls do nothing, the requests are still issued
OrphanFollowUp(t) ==
  IF t.kind = "list" /\ t.st = "ok" /\ Len(t.convs) > 0 /\ Falsy(t.cur)
    THEN {Orphan(Task("history", Head(t.convs), Null, ""))}
  ELSE IF t.kind = "submitCreate" /\ t.st = "ok"
    THEN {Orphan(Task("chat", t.id, t.cur, t.text))}
  ELSE IF t.kind = "submitCreate" /\ t.st = "refused"
    THEN {Orphan(Task("chat", Undef, t.cur, t.text))}
  ELSE IF t.kind = "chat" /\ t.st \in {"ok", "refused"}
    THEN {Orphan(Task("list", Null, t.cur, ""))}
  ELSE {}

\* an invocation of an unmounted Chat after its await fulfilled
OrphanResumes(t) ==
  /\ ~t.live /\ t.st # "sent"
  /\ tasks' = Resume(t) (+) SetToBag(OrphanFollowUp(t))
  /\ lastEvent' = Event("orphan", Null, "")
  /\ UNCHANGED <<chatVars, serverVars, nOps, nEdits, nRefused>>

\* an invocation of an unmounted Chat after its await rejected
OrphanRejected(t) ==
  /\ ~t.live
  /\ tasks' = Resume(t)
  /\ lastEvent' = Event("orphan", Null, "")
  /\ UNCHANGED <<chatVars, serverVars, nOps, nEdits, nRefused>>

\* ---------------------------------------------------------------- backend
Answer(t, a) == (tasks (-) SetToBag({t})) (+) SetToBag({a})

\* GET /chat/conversations
ServerGetConversations(t) ==
  /\ t.kind = "list" /\ t.st = "sent"
  /\ tasks' = Answer(t, [t EXCEPT !.st = "ok", !.convs = serverConvs])
  /\ lastEvent' = Event("server", Null, "")
  /\ UNCHANGED <<chatVars, serverVars, nOps, nEdits, nRefused>>

\* GET /chat/{id}/history
ServerGetChatHistory(t) ==
  /\ t.kind = "history" /\ t.st = "sent"
  /\ t.conv \in Range(serverConvs)
  /\ tasks' = Answer(t, [t EXCEPT !.st = "ok", !.msgs = serverHist[t.conv]])
  /\ lastEvent' = Event("server", Null, "")
  /\ UNCHANGED <<chatVars, serverVars, nOps, nEdits, nRefused>>

\* POST /chat/conversations
ServerCreateConversation(t) ==
  /\ t.kind \in {"create", "submitCreate"} /\ t.st = "sent"
  /\ serverConvs' = <<serverNext>> \o serverConvs
  /\ serverNext' = serverNext + 1
  /\ tasks' = Answer(t, [t EXCEPT !.st = "ok", !.id = serverNext])
  /\ lastEvent' = Event("server", Null, "")
  /\ UNCHANGED <<chatVars, serverHist, nOps, nEdits, nRefused>>

\* DELETE /chat/conversations/{id}
ServerDeleteConversation(t) ==
  /\ t.kind = "delete" /\ t.st = "sent"
  /\ t.conv \in Range(serverConvs)
  /\ serverConvs' = Without(serverConvs, t.conv)
  /\ tasks' = Answer(t, [t EXCEPT !.st = "ok"])
  /\ lastEvent' = Event("server", Null, "")
  /\ UNCHANGED <<chatVars, serverHist, serverNext, nOps, nEdits, nRefused>>

\* POST /chat/{id}: the turn is stored in the conversation's history
ServerChat(t) ==
  /\ t.kind = "chat" /\ t.st = "sent"
  /\ t.conv \in Range(serverConvs)
  /\ serverHist' = [serverHist EXCEPT ![t.conv] =
        @ \o <<Msg("user", t.text, t.conv), Msg("assistant", Reply(t.text), t.conv)>>]
  /\ tasks' = Answer(t, [t EXCEPT !.st = "ok"])
  /\ lastEvent' = Event("server", Null, "")
  /\ UNCHANGED <<chatVars, serverConvs, serverNext, nOps, nEdits, nRefused>>

\* the backend answers a request with a non-success status and a JSON error
\* body, and does nothing
ServerRefuses(t) ==
  /\ t.st = "sent"
  /\ nRefused < MaxRefusals
  /\ nRefused' = nRefused + 1
  /\ tasks' = Answer(t, [t EXCEPT !.st = "refused"])
  /\ lastEvent' = Event("server", Null, "")
  /\ UNCHANGED <<chatVars, serverVars, nOps, nEdits>>

\* ---------------------------------------------------------------- system
Next ==
  \/ \E v \in Inputs : SetInput(v) /\ ChatOnly
  \/ \E s \in Suggestions : ClickSuggestion(s) /\ ChatOnly
  \/ handleSubmit /\ ChatOnly
  \/ createNewConversation /\ ChatOnly
  \/ \E id \in RowIds : ClickConversation(id) /\ ChatOnly
  \/ \E id \in RowIds : deleteConversation(id) /\ ChatOnly
  \/ LeaveChat /\ ChatOnly
  \/ EnterChat /\ ChatOnly
  \/ \E t \in Waiting : LoadConversationsResolved(t) /\ ChatOnly
  \/ \E t \in Waiting : LoadConversationsRefused(t) /\ ChatOnly
  \/ \E t \in Waiting : LoadConversationsRejected(t) /\ ChatOnly
  \/ \E t \in Waiting : SelectConversationResolved(t) /\ ChatOnly
  \/ \E t \in Waiting : SelectConversationRefused(t) /\ ChatOnly
  \/ \E t \in Waiting : SelectConversationRejected(t) /\ ChatOnly
  \/ \E t \in Waiting : CreateNewConversationResolved(t) /\ ChatOnly
  \/ \E t \in Waiting : CreateNewConversationRefused(t) /\ ChatOnly
  \/ \E t \in Waiting : CreateNewConversationRejected(t) /\ ChatOnly
  \/ \E t \in Waiting : DeleteConversationResolved(t) /\ ChatOnly
  \/ \E t \in Waiting : DeleteConversationRefused(t) /\ ChatOnly
  \/ \E t \in Waiting : DeleteConversationRejected(t) /\ ChatOnly
  \/ \E t \in Waiting : HandleSubmitCreated(t) /\ ChatOnly
  \/ \E t \in Waiting : HandleSubmitCreateRefused(t) /\ ChatOnly
  \/ \E t \in Waiting : HandleSubmitCreateRejected(t) /\ ChatOnly
  \/ \E t \in Waiting : HandleSubmitReplied(t) /\ ChatOnly
  \/ \E t \in Waiting : HandleSubmitRefused(t) /\ ChatOnly
  \/ \E t \in Waiting : HandleSubmitFailed(t) /\ ChatOnly
  \/ \E t \in Orphans : OrphanResumes(t) /\ ChatOnly
  \/ \E t \in Orphans : OrphanRejected(t) /\ ChatOnly
  \/ \E t \in Requests : ServerGetConversations(t) /\ ChatOnly
  \/ \E t \in Requests : ServerGetChatHistory(t) /\ ChatOnly
  \/ \E t \in Requests : ServerCreateConversation(t) /\ ChatOnly
  \/ \E t \in Requests : ServerDeleteConversation(t) /\ ChatOnly
  \/ \E t \in Requests : ServerChat(t) /\ ChatOnly
  \/ \E t \in Requests : ServerRefuses(t) /\ ChatOnly

allVars == <<vars, streamVars, analyticsVars, cycleVars>>

Spec == Init /\ [][Next]_allVars


\* ---------------------------------------------------------------- api.streamSummary
\* inbound events and channel operations a run of the stream may see
MaxEvents == 3

\* event.data after JSON.parse: the fields the handler tests; an absent field
\* reads as falsy, like FALSE and ""
Payload(done, error, text) ==
  [kind |-> "message", done |-> done, error |-> error, text |-> text]

Payloads ==
  {Payload(d, e, t) : d \in BOOLEAN, e \in {"", "x"}, t \in {"", "a", "b"}}

\* a transport-level error event of the EventSource
Fault == [kind |-> "error", done |-> FALSE, error |-> "", text |-> ""]

\* the caller calling close() on the EventSource streamSummary returned
CallerClose == [kind |-> "close", done |-> FALSE, error |-> "", text |-> ""]

\* one callback invocation
Call(cb, arg) == [cb |-> cb, arg |-> arg]

\* the text eventSource.onerror passes to onError
StreamConnectionError == "Connection error"

\* eventSource.onmessage: the callbacks it invokes
OnMessageCalls_noElse(data, cs) ==
  LET a == IF data.done THEN Append(cs, Call("onDone", "")) ELSE cs
      b == IF data.error # "" THEN Append(a, Call("onError", data.error)) ELSE a
  IN  IF ~data.done /\ data.error = "" /\ data.text # ""
        THEN Append(b, Call("onChunk", data.text))
        ELSE b
OnMessageCalls(data, cs) ==
  IF data.done THEN Append(cs, Call("onDone", ""))
  ELSE IF data.error # "" THEN Append(cs, Call("onError", data.error))
  ELSE IF data.text # "" THEN Append(cs, Call("onChunk", data.text))
  ELSE cs

\* eventSource.onmessage: eventSource.close() in the done and error branches
OnMessageReadyState_staysOpen(data, rs) == rs
OnMessageReadyState(data, rs) ==
  IF data.done \/ data.error # "" THEN "closed" ELSE rs

\* eventSource.onerror: eventSource.close(), then onError
OnErrorReadyState_staysOpen(rs) == rs
OnErrorReadyState(rs) == "closed"

OnErrorCalls(cs) == Append(cs, Call("onError", StreamConnectionError))

\* the chat session as constructed, with an empty backend: it stays so while
\* the stream runs
ChatIdle ==
  /\ conversations = <<>>
  /\ currentConvId = Null
  /\ messages = <<>>
  /\ input = ""
  /\ loading = FALSE
  /\ appView = "chat"
  /\ tasks = SetToBag({Task("list", Null, Null, "")})
  /\ serverConvs = <<>>
  /\ serverNext = 1
  /\ serverHist = [c \in ConvIds |-> <<>>]
  /\ nOps = 0
  /\ nEdits = 0
  /\ nRefused = 0
  /\ lastEvent = Event("mount", Null, "")

\* the other components are left alone by a step of the stream
StreamOnly == UNCHANGED <<vars, analyticsVars, cycleVars>>

\* the state when streamSummary has returned the EventSource
StreamInit ==
  /\ readyState = "open"
  /\ inbound = <<>>
  /\ calls = <<>>
  /\ ChatIdle
  /\ AnalyticsIdle

\* a message event: the EventSource dispatches it to onmessage unless it has
\* been closed
StreamMessage(data) ==
  /\ Len(inbound) < MaxEvents
  /\ inbound' = Append(inbound, data)
  /\ IF readyState = "open"
       THEN /\ readyState' = OnMessageReadyState(data, readyState)
            /\ calls' = OnMessageCalls(data, calls)
       ELSE UNCHANGED <<readyState, calls>>
  /\ StreamOnly

\* a transport fault: the EventSource dispatches an error event to onerror
\* unless it has been closed
StreamFault ==
  /\ Len(inbound) < MaxEvents
  /\ inbound' = Append(inbound, Fault)
  /\ IF readyState = "open"
       THEN /\ readyState' = OnErrorReadyState(readyState)
            /\ calls' = OnErrorCalls(calls)
       ELSE UNCHANGED <<readyState, calls>>
  /\ StreamOnly

\* the caller closes the channel it was given
StreamClose ==
  /\ Len(inbound) < MaxEvents
  /\ inbound' = Append(inbound, CallerClose)
  /\ readyState' = "closed"
  /\ UNCHANGED calls
  /\ StreamOnly

StreamNext ==
  \/ \E data \in Payloads : StreamMessage(data)
  \/ StreamFault
  \/ StreamClose

SpecStream == StreamInit /\ [][StreamNext]_allVars

\* ---------------------------------------------------------------- Analytics
\* the other components are left alone by a step of Analytics
AnalyticsOnly == UNCHANGED <<vars, streamVars, cycleVars>>

\* how one request of api.getX() can go: a success response, a non-success
\* response whose body is JSON, a non-success response whose body is not, or
\* no response at all
Outcomes == {"ok", "errorJson", "errorText", "network"}

\* const res = await fetch(url); return res.json(): fetch resolves on every
\* HTTP response, whatever its status, and res.ok is not looked at, so the
\* promise rejects only when fetch or the JSON parse does
Fulfils(outcome) == outcome \in {"ok", "errorJson"}
Rejects(outcome) == outcome \in {"errorText", "network"}

\* what res.json() gives: the resource, or the error object of the backend
Body(r, outcome) ==
  IF outcome = "ok"
    THEN [from |-> r, has_data |-> TRUE]
    ELSE [detail |-> "error"]

\* overview?.has_data
HasData(o) == IF "has_data" \in DOMAIN o THEN o.has_data ELSE FALSE

\* what the component returns: the spinner, the notice, or the dashboard
Screen ==
  IF analyticsLoading THEN "loading"
  ELSE IF ~HasData(overview) THEN "noData"
  ELSE "dashboard"

\* one render: the early returns, or the dashboard with its chart data
Render(data) ==
  /\ rendered' = [screen |-> Screen,
                  data |-> IF Screen = "dashboard" THEN data ELSE <<>>]
  /\ UNCHANGED <<published, analyticsLoading, requests>>
  /\ AnalyticsOnly

\* useEffect(() => { loadAllData(); }, []): setLoading(true) and the five
\* requests are out
AnalyticsInit ==
  /\ overview = JsNull
  /\ yearly = JsNull
  /\ suppliers = JsNull
  /\ equipment = JsNull
  /\ comparison = JsNull
  /\ analyticsLoading = TRUE
  /\ requests = [r \in Resources |-> "pending"]
  /\ rendered = NotRendered
  /\ CyclesIdle
  /\ ChatIdle
  /\ StreamIdle

\* one of the five requests settles
RequestSettles(r, outcome) ==
  /\ requests[r] = "pending"
  /\ requests' = [requests EXCEPT ![r] = outcome]
  /\ UNCHANGED <<published, analyticsLoading, rendered>>
  /\ AnalyticsOnly

\* loadAllData: Promise.all fulfilled, the five setters, finally
LoadAllDataResolved ==
  /\ analyticsLoading
  /\ \A r \in Resources : Fulfils(requests[r])
  /\ overview' = Body("overview", requests["overview"])
  /\ yearly' = Body("yearly", requests["yearly"])
  /\ suppliers' = Body("suppliers", requests["suppliers"])
  /\ equipment' = Body("equipment", requests["equipment"])
  /\ comparison' = Body("comparison", requests["comparison"])
  /\ analyticsLoading' = FALSE
  /\ UNCHANGED <<requests, rendered>>
  /\ AnalyticsOnly

\* loadAllData: Promise.all rejected by the first request that rejects,
\* catch (console.error), finally
LoadAllDataRejected ==
  /\ analyticsLoading
  /\ \E r \in Resources : Rejects(requests[r])
  /\ analyticsLoading' = FALSE
  /\ UNCHANGED <<published, requests, rendered>>
  /\ AnalyticsOnly

AnalyticsNext ==
  \/ \E r \in Resources, outcome \in Outcomes : RequestSettles(r, outcome)
  \/ LoadAllDataResolved
  \/ LoadAllDataRejected

SpecAnalytics == AnalyticsInit /\ [][AnalyticsNext]_allVars

\* --------------------------------------------- Analytics: overlapping loads
\* a step of loadAllData touches only Analytics
LoadOnly == UNCHANGED <<vars, streamVars, requests, rendered>>

\* res.json() of one request of invocation k
CycleBody(k, r, outcome) ==
  IF outcome = "ok"
    THEN [from |-> r, has_data |-> TRUE, cycle |-> k]
    ELSE [detail |-> "error", cycle |-> k]

\* the five setters of invocation k, given how its requests went
Publication(k, l) ==
  << CycleBody(k, "overview", l["overview"]), CycleBody(k, "yearly", l["yearly"]),
     CycleBody(k, "suppliers", l["suppliers"]),
     CycleBody(k, "equipment", l["equipment"]),
     CycleBody(k, "comparison", l["comparison"]) >>

Issued(k) == joins[k] # "none"

\* the first invocation, by the mount effect
ReloadInit ==
  /\ overview = JsNull
  /\ yearly = JsNull
  /\ suppliers = JsNull
  /\ equipment = JsNull
  /\ comparison = JsNull
  /\ analyticsLoading = TRUE
  /\ requests = [r \in Resources |-> "none"]
  /\ rendered = NotRendered
  /\ loads = [k \in Cycles |->
                [r \in Resources |-> IF k = 1 THEN "pending" ELSE "none"]]
  /\ joins = [k \in Cycles |-> IF k = 1 THEN "pending" ELSE "none"]
  /\ settled = <<>>
  /\ ChatIdle
  /\ StreamIdle

\* loadAllData is invoked again: setLoading(true), five more requests
LoadAllDataAgain(k) ==
  /\ ~Issued(k)
  /\ \A j \in Cycles : j < k => Issued(j)
  /\ analyticsLoading' = TRUE
  /\ loads' = [loads EXCEPT ![k] = [r \in Resources |-> "pending"]]
  /\ joins' = [joins EXCEPT ![k] = "pending"]
  /\ UNCHANGED <<published, settled>>
  /\ LoadOnly

\* invocation k: Promise.all fulfilled with l, the five setters, finally
CycleResolved(k, l) ==
  /\ LET p == Publication(k, l)
     IN  /\ overview' = p[1]
         /\ yearly' = p[2]
         /\ suppliers' = p[3]
         /\ equipment' = p[4]
         /\ comparison' = p[5]
  /\ analyticsLoading' = FALSE
  /\ joins' = [joins EXCEPT ![k] = "fulfilled"]
  /\ settled' = Append(settled, k)

\* invocation k: Promise.all rejected, catch, finally
CycleRejected(k) ==
  /\ analyticsLoading' = FALSE
  /\ joins' = [joins EXCEPT ![k] = "rejected"]
  /\ settled' = Append(settled, k)
  /\ UNCHANGED published

\* one request of invocation k settles while its Promise.all is pending; the
\* promise reactions up to the continuation of loadAllData run in the same
\* turn, before any other response is handled
CycleRequestSettles(k, r, outcome) ==
  /\ joins[k] = "pending"
  /\ loads[k][r] = "pending"
  /\ LET l == [loads[k] EXCEPT ![r] = outcome]
     IN  /\ loads' = [loads EXCEPT ![k] = l]
         /\ IF Rejects(outcome) THEN CycleRejected(k)
            ELSE IF \A q \in Resources : Fulfils(l[q]) THEN CycleResolved(k, l)
            ELSE UNCHANGED <<published, analyticsLoading, joins, settled>>
  /\ LoadOnly

ReloadNext ==
  \/ \E k \in Cycles : LoadAllDataAgain(k)
  \/ \E k \in Cycles, r \in Resources, outcome \in Outcomes :
       CycleRequestSettles(k, r, outcome)

SpecReload == ReloadInit /\ [][ReloadNext]_allVars

\* ------------------------------------------------------- Analytics: chart data
\* the state once a load has published, the inputs of a render yet to be drawn
Loaded ==
  /\ analyticsLoading = FALSE
  /\ requests = [r \in Resources |-> "ok"]
  /\ rendered = NotRendered
  /\ yearly = JsNull
  /\ equipment = JsNull
  /\ CyclesIdle
  /\ ChatIdle
  /\ StreamIdle

\* v || 0, v a number or missing
OrZero_passthrough(v) == v
OrZero(v) == IF v.tag = "number" /\ v.n # 0 THEN v ELSE Num(0)

\* o?.f, o an object of the overview or missing
Field(o, f) == IF o.present THEN o[f] ELSE Undefined

fullMark == 100

radarData(o) ==
  << [metric |-> "Yield",
      value |-> OrZero(Field(o.production, "avg_yield")), fullMark |-> fullMark],
     [metric |-> "QC Pass",
      value |-> OrZero(Field(o.quality, "pass_rate")), fullMark |-> fullMark],
     [metric |-> "Calibrations OK",
      value |-> OrZero(Field(o.equipment, "calibration_pass_rate")),
      fullMark |-> fullMark],
     [metric |-> "Quality Score",
      value |-> OrZero(Field(o.quality, "quality_score")), fullMark |-> fullMark] >>

\* the values a percentage field of the overview takes, when it is there
Percentages == {Undefined, JsNull, Num(0), Num(50), Num(100)}

Missing(fields) == [f \in fields \cup {"present"} |->
                      IF f = "present" THEN FALSE ELSE Undefined]

Productions ==
  {Missing({"avg_yield"})}
    \cup {[present |-> TRUE, avg_yield |-> y] : y \in Percentages}

Qualities ==
  {Missing({"pass_rate", "quality_score"})}
    \cup {[present |-> TRUE, pass_rate |-> p, quality_score |-> q] :
            p \in Percentages, q \in Percentages}

Equipments ==
  {Missing({"calibration_pass_rate"})}
    \cup {[present |-> TRUE, calibration_pass_rate |-> c] : c \in Percentages}

Overviews ==
  {[has_data |-> h, production |-> p, quality |-> q, equipment |-> e] :
     h \in BOOLEAN, p \in Productions, q \in Qualities, e \in Equipments}

RadarInit ==
  /\ overview \in Overviews
  /\ suppliers = JsNull
  /\ comparison = JsNull
  /\ Loaded

RenderRadar == Render(radarData(overview))

SpecRadar == RadarInit /\ [][RenderRadar]_allVars

\* suppliers shown in the pie chart
TopSuppliers == 5

\* suppliers the backend lists, one more than the chart takes at the default
MaxSuppliers == 6

Min(a, b) == IF a <= b THEN a ELSE b

\* array.slice(from, to), 0 <= from <= to
slice_whole(s, from, to) == s
slice(s, from, to) == SubSeq(s, from + 1, Min(to, Len(s)))

\* s.supplier_name || s.supplier_id, "" for a name that is empty or absent
PieEntry(s) ==
  [name |-> IF s.supplier_name # "" THEN s.supplier_name ELSE s.supplier_id,
   value |-> s.total_deliveries,
   rate |-> s.approval_rate]

\* suppliers?.suppliers?.slice(0, 5).map(...) || []
supplierPieData(body) ==
  IF "has_suppliers" \notin DOMAIN body THEN <<>>
  ELSE IF ~body.has_suppliers THEN <<>>
  ELSE LET top == slice(body.suppliers, 0, TopSuppliers)
       IN  [i \in 1..Len(top) |-> PieEntry(top[i])]

SupplierPool ==
  { [supplier_id |-> "S1", supplier_name |-> "Acme",
     total_deliveries |-> 10, approval_rate |-> 90],
    [supplier_id |-> "S2", supplier_name |-> "",
     total_deliveries |-> 20, approval_rate |-> 80] }

SupplierLists ==
  UNION {[1..n -> SupplierPool] : n \in 0..MaxSuppliers}

SupplierBodies ==
  {[has_suppliers |-> FALSE, suppliers |-> <<>>]}
    \cup {[has_suppliers |-> TRUE, suppliers |-> l] : l \in SupplierLists}

GoodOverview ==
  [has_data |-> TRUE,
   production |-> [present |-> TRUE, avg_yield |-> Num(50)],
   quality |-> [present |-> TRUE, pass_rate |-> Num(50), quality_score |-> Num(50)],
   equipment |-> [present |-> TRUE, calibration_pass_rate |-> Num(50)]]

SuppliersInit ==
  /\ overview = GoodOverview
  /\ suppliers \in SupplierBodies \cup {JsNull}
  /\ comparison = JsNull
  /\ Loaded

RenderSuppliers == Render(supplierPieData(suppliers))

SpecSuppliers == SuppliersInit /\ [][RenderSuppliers]_allVars

\* the colour classes of the Evolution panel
Green == "text-green-600"
Red == "text-red-600"
Blue == "text-blue-600"

\* an increase is shown as good
IncreaseIsGood(v) == IF v >= 0 THEN Green ELSE Red

\* a decrease is shown as good
DecreaseIsGood_asIncrease(v) == IF v >= 0 THEN Green ELSE Red
DecreaseIsGood(v) == IF v <= 0 THEN Green ELSE Red

\* no direction is better
Neutral(v) == IF v >= 0 THEN Blue ELSE Blue

\* the classes of the four figures, in the order they are laid out
changeClasses(c) ==
  << IncreaseIsGood(c.changes.batches_pct),
     IncreaseIsGood(c.changes.yield_pct),
     Neutral(c.changes.hardness_pct),
     DecreaseIsGood(c.changes.complaints_pct) >>

Deltas == {-5, -1, 0, 1, 5}

Comparisons ==
  {[changes |-> [batches_pct |-> b, yield_pct |-> y,
                 hardness_pct |-> h, complaints_pct |-> c]] :
     b \in Deltas, y \in Deltas, h \in Deltas, c \in Deltas}

ComparisonInit ==
  /\ overview = GoodOverview
  /\ suppliers = JsNull
  /\ comparison \in Comparisons
  /\ Loaded

\* the comparison tab: activeTab === 'comparison' && comparison && (...)
RenderComparison ==
  Render(IF comparison # JsNull THEN changeClasses(comparison) ELSE <<>>)

SpecComparison == ComparisonInit /\ [][RenderComparison]_allVars

\* ---------------------------------------------------------------- claims
IsPrefix(p, s) == Len(p) <= Len(s) /\ \A i \in 1..Len(p) : p[i] = s[i]

Last(s) == s[Len(s)]

\* the events that end a handleSubmit invocation that passed the early return
SendCompleted == {"chatOk", "chatRefused", "chatFail", "submitUnhandled"}

\* C1: at most one chat request (api.chat) is in flight in every reachable
\* state, whatever the interleaving of handleSubmit invocations.
C1_AtMostOneChatInFlight == InFlight("chat") <= 1

\* C2: currentConvId is null or the id of a conversation in conversations,
\* in every reachable state of a rendered Chat.
C2_ActiveIsListed ==
  Shown => (currentConvId = Null \/ currentConvId \in Range(conversations))

\* C3: a history fetched for a conversation, or the reply or fallback of a
\* send addressed to it, is put in messages only while that conversation is
\* the active one.
C3_InstalledForActiveOnly ==
  lastEvent.op \in {"historyOk", "chatOk", "chatRefused", "chatFail"}
    => lastEvent.conv = currentConvId

\* C4: when a send that passed the precondition has completed, messages ends
\* with the assistant entry of that send: the server response, or the fixed
\* "Connection error." text.
C4_SendEndsWithItsAssistantEntry ==
  lastEvent.op \in SendCompleted
    => /\ messages # <<>>
       /\ Last(messages).role = "assistant"
       /\ Last(messages).conv = lastEvent.conv
       /\ Last(messages).content \in {Reply(lastEvent.text), ConnectionError}

\* C5: in a rendered Chat, loading is true exactly while a chat request is
\* outstanding.
C5_LoadingIffChatInFlight == Shown => (loading <=> InFlight("chat") > 0)

\* C6: no failure during a send leaves handleSubmit as a rejected promise.
C6_NoRejectionEscapes == lastEvent.op # "submitUnhandled"

\* C7: a handleSubmit invocation whose input is empty after trimming changes
\* nothing: messages, conversations, currentConvId, loading, input, the
\* requests in flight and the backend stay as they were.
C7_BlankSendIsNoOp ==
  [][(Trim(input) = "" /\ lastEvent'.op \in {"submitNoop", "submitCreate", "submitChat"})
       => UNCHANGED <<chatVars, tasks, serverVars>>]_vars

\* a whitespace-only submit was made while nothing blocked the form
C7_Witness ==
  /\ lastEvent.op = "submitNoop"
  /\ lastEvent.text = "  "
  /\ input = "  "
  /\ ~loading

\* C8: when a deletion completes for the conversation that is active at that
\* moment, the conversation leaves the list, currentConvId becomes null and
\* messages becomes empty.
C8_DeleteOfActiveClears ==
  [][(lastEvent'.op = "deleteOk" /\ currentConvId = lastEvent'.conv)
       => /\ currentConvId' = Null
          /\ messages' = <<>>
          /\ lastEvent'.conv \notin Range(conversations')]_vars

\* C9: selecting a conversation makes it the active one; when its history
\* fetch resolves messages becomes exactly the history the backend returned
\* for it, and when the fetch fails, by a rejection or by a non-success
\* response, messages becomes empty.
C9_SelectReplacesMessages ==
  [][/\ lastEvent'.op = "select" => currentConvId' = lastEvent'.conv
     /\ lastEvent'.op = "historyOk"
          => \E t \in Waiting :
               /\ t.kind = "history" /\ t.st = "ok" /\ t.conv = lastEvent'.conv
               /\ tasks' = Resume(t)
               /\ messages' = t.msgs
               /\ IsPrefix(t.msgs, serverHist[t.conv])
               /\ \A i \in 1..Len(t.msgs) : t.msgs[i].conv = t.conv
     /\ lastEvent'.op \in {"historyFail", "historyRefused"}
          => messages' = <<>>]_vars

\* C10: after a failed list fetch, by a rejection or by a non-success
\* response, conversations is empty and Chat is still rendered.
C10_FailedListLeavesEmpty ==
  lastEvent.op \in {"listFail", "listRefused"}
    => conversations = <<>> /\ appView # "crashed"


\* ------------------------------------------- claims: the chat session, continued
\* C18: loadConversations changes the active conversation only if none is
\* selected when its response is applied; with a conversation active, one
\* selected or created while the list fetch was in flight included, it leaves
\* currentConvId and messages unchanged.
C18_ListLeavesActiveAlone ==
  [][(lastEvent'.op = "listOk" /\ ~Falsy(currentConvId))
       => (currentConvId' = currentConvId /\ messages' = messages)]_vars

\* the chat requests in flight that are addressed to conversation id with text
ChatsTo(bag, id, text) ==
  {c \in BagToSet(bag) : c.kind = "chat" /\ c.conv = id /\ c.text = text}

\* the number of suspended invocations of this kind in a bag of tasks
Count(bag, kind) ==
  LET ts == {c \in BagToSet(bag) : c.kind = kind}
      RECURSIVE Sum(_)
      Sum(S) == IF S = {} THEN 0
                ELSE LET c == CHOOSE x \in S : TRUE
                     IN  CopiesIn(c, bag) + Sum(S \ {c})
  IN  Sum(ts)

\* C19: a send with no active conversation issues exactly one creation and,
\* until it completes, appends nothing and issues no chat request; when the
\* send goes on after the creation, a conversation has been created, it is
\* prepended and made active, the user message is appended and one chat
\* request is issued, addressed to the new conversation's id.
C19_LazyCreateThenSend ==
  [][/\ lastEvent'.op = "submitCreate"
          => /\ Falsy(currentConvId)
             /\ Count(tasks', "submitCreate") = Count(tasks, "submitCreate") + 1
             /\ Count(tasks', "chat") = Count(tasks, "chat")
             /\ messages' = messages
             /\ conversations' = conversations
     /\ lastEvent'.op \in {"submitCreated", "submitCreateRefused"}
          => LET id == lastEvent'.conv
                 text == lastEvent'.text
             IN  /\ id \in 1..(serverNext - 1)
                 /\ serverVars' = serverVars
                 /\ \E t \in BagToSet(tasks) :
                      /\ t.kind = "submitCreate" /\ t.st = "ok"
                      /\ t.id = id /\ t.text = text
                      /\ CopiesIn(t, tasks') = CopiesIn(t, tasks) - 1
                 /\ conversations' = <<id>> \o conversations
                 /\ currentConvId' = id
                 /\ messages' = Append(messages, Msg("user", text, id))
                 /\ Count(tasks', "submitCreate") = Count(tasks, "submitCreate") - 1
                 /\ Count(tasks', "chat") = Count(tasks, "chat") + 1
                 /\ \E c \in ChatsTo(tasks', id, text) :
                      /\ c.st = "sent"
                      /\ CopiesIn(c, tasks') = CopiesIn(c, tasks) + 1]_vars

\* C20: a successful createConversation puts the new conversation at the head
\* of conversations, the others keeping their order, makes it active and
\* empties messages; and when the response of a list fetch issued before the
\* creation is applied next, the new conversation is still in conversations
\* and messages is still its (empty) history.
C20_CreatedStaysListed ==
  [][/\ lastEvent'.op = "createOk"
          => /\ conversations' = <<lastEvent'.conv>> \o conversations
             /\ currentConvId' = lastEvent'.conv
             /\ messages' = <<>>
     /\ (lastEvent.op = "createOk" /\ lastEvent'.op = "listOk")
          => /\ lastEvent.conv \in Range(conversations')
             /\ messages' = messages]_vars

\* the ways a createNewConversation or a deleteConversation ends when its
\* request failed: the promise rejected, or a non-success response
FailedCall == {"createFail", "deleteFail", "createRefused", "deleteRefused"}

\* C22: a createNewConversation or a deleteConversation whose request failed
\* leaves conversations, currentConvId, messages and loading as they were.
C22_FailedCallChangesNothing ==
  [][lastEvent'.op \in FailedCall
       => UNCHANGED <<conversations, currentConvId, messages, loading>>]_vars

\* ------------------------------------------------------- claims: the stream
\* the payload shapes as onmessage tells them apart
IsDone(e) == e.kind = "message" /\ e.done
IsError(e) == e.kind = "message" /\ ~e.done /\ e.error # ""
IsText(e) == e.kind = "message" /\ ~e.done /\ e.error = "" /\ e.text # ""

\* what closes the channel: close() by the caller, {done}, {error}, a fault
IsTerminal(e) == e.kind \in {"close", "error"} \/ IsDone(e) \/ IsError(e)

Terminated(s) == \E i \in 1..Len(s) : IsTerminal(s[i])

\* the onChunk invocations the text payloads of s call for, in order
RECURSIVE ChunkCalls(_)
ChunkCalls(s) ==
  IF s = <<>> THEN <<>>
  ELSE (IF IsText(Head(s)) THEN <<Call("onChunk", Head(s).text)>> ELSE <<>>)
         \o ChunkCalls(Tail(s))

\* what a caller that appends every chunk has accumulated
RECURSIVE Accumulated(_)
Accumulated(cs) ==
  IF cs = <<>> THEN ""
  ELSE (IF Head(cs).cb = "onChunk" THEN Head(cs).arg ELSE "") \o Accumulated(Tail(cs))

RECURSIVE Concat(_)
Concat(s) == IF s = <<>> THEN "" ELSE Head(s).text \o Concat(Tail(s))

CountCalls(cbs) == Cardinality({i \in 1..Len(calls) : calls[i].cb \in cbs})

\* C11: once the channel has been closed (close() by the caller, a {done}
\* payload, an {error} payload or a transport fault), no callback is invoked
\* again, whatever arrives afterwards.
C11_NoCallbackAfterClose ==
  [][Terminated(inbound) => calls' = calls]_streamVars

\* the caller closed the channel after a chunk, and a payload or a fault
\* arrived afterwards without any callback
C11_Witness ==
  /\ Len(inbound) >= 3
  /\ IsText(inbound[1])
  /\ inbound[2] = CallerClose
  /\ inbound[3].kind \in {"message", "error"}
  /\ calls = <<Call("onChunk", inbound[1].text)>>

\* C12: when the inbound events are text payloads followed by {done:true},
\* onChunk is invoked once per text payload in arrival order (the accumulated
\* output is their concatenation), the channel is closed, onDone is invoked
\* exactly once and onError never.
C12_TextsThenDone ==
  \A n \in 1..Len(inbound) :
    (IsDone(inbound[n]) /\ \A i \in 1..(n - 1) : IsText(inbound[i]))
      => /\ calls = ChunkCalls(SubSeq(inbound, 1, n - 1)) \o <<Call("onDone", "")>>
         /\ Accumulated(calls) = Concat(SubSeq(inbound, 1, n - 1))
         /\ readyState = "closed"
         /\ CountCalls({"onDone"}) = 1
         /\ CountCalls({"onError"}) = 0

\* {text:"a"}, {text:"b"}, {done:true} gave "ab" and one completion
C12_Witness ==
  /\ Len(inbound) = 3
  /\ inbound[1] = Payload(FALSE, "", "a")
  /\ inbound[2] = Payload(FALSE, "", "b")
  /\ inbound[3] = Payload(TRUE, "", "")
  /\ Accumulated(calls) = "ab"
  /\ CountCalls({"onDone"}) = 1

\* C13: a failure that reaches the open channel, an {error: m} payload or a
\* transport fault, closes it and invokes onError once, with m or with the
\* generic text, and onDone never; and whatever arrives, at most one terminal
\* callback (onDone or onError) is ever invoked.
C13_FailureSurfacedOnce ==
  /\ CountCalls({"onDone", "onError"}) <= 1
  /\ \A n \in 1..Len(inbound) :
       ((IsError(inbound[n]) \/ inbound[n] = Fault)
          /\ \A i \in 1..(n - 1) : ~IsTerminal(inbound[i]))
         => /\ readyState = "closed"
            /\ calls = ChunkCalls(SubSeq(inbound, 1, n - 1))
                 \o <<Call("onError", IF inbound[n] = Fault
                                        THEN StreamConnectionError
                                        ELSE inbound[n].error)>>
            /\ CountCalls({"onDone"}) = 0

\* {text:"a"}, {error:"x"}, then a fault: "a", one onError("x"), closed
C13_Witness ==
  /\ Len(inbound) = 3
  /\ inbound[1] = Payload(FALSE, "", "a")
  /\ inbound[2] = Payload(FALSE, "x", "")
  /\ inbound[3] = Fault
  /\ calls = <<Call("onChunk", "a"), Call("onError", "x")>>
  /\ readyState = "closed"


\* ---------------------------------------------------- claims: Analytics
Failed(outcome) == outcome \in {"errorJson", "errorText", "network"}

\* C14: loadAllData is all-or-nothing: when any of the five requests has
\* failed, by a network failure or by a non-success response, the load
\* publishes none of overview, yearly, suppliers, equipment and comparison and
\* the component ends on 'No data available' with loading false.
C14_AllOrNothing ==
  (~analyticsLoading /\ \E r \in Resources : Failed(requests[r]))
    => /\ published = <<JsNull, JsNull, JsNull, JsNull, JsNull>>
       /\ Screen = "noData"

Good(class) == class = Green
Bad(class) == class = Red
NeutralClass(class) == class = Blue

\* C15: for every value of the four deltas, batches_pct and yield_pct are shown
\* good iff >= 0 and bad otherwise, hardness_pct is shown neutral, and
\* complaints_pct is shown good iff <= 0 and bad otherwise; all four at -5
\* give bad, bad, neutral, good.
C15_PolarityTable ==
  rendered.screen = "dashboard" =>
    LET d == comparison.changes
        shown == rendered.data
    IN  /\ Len(shown) = 4
        /\ Good(shown[1]) <=> d.batches_pct >= 0
        /\ Bad(shown[1]) <=> d.batches_pct < 0
        /\ Good(shown[2]) <=> d.yield_pct >= 0
        /\ Bad(shown[2]) <=> d.yield_pct < 0
        /\ NeutralClass(shown[3])
        /\ Good(shown[4]) <=> d.complaints_pct <= 0
        /\ Bad(shown[4]) <=> d.complaints_pct > 0
        /\ (d.batches_pct = -5 /\ d.yield_pct = -5
              /\ d.hardness_pct = -5 /\ d.complaints_pct = -5)
             => shown = <<Red, Red, Blue, Green>>

\* all four deltas at -5, rendered
C15_Witness ==
  /\ comparison \in Comparisons
  /\ \A f \in DOMAIN comparison.changes : comparison.changes[f] = -5
  /\ rendered.data = <<Red, Red, Blue, Green>>

\* C16: supplierPieData has length min(5, number of suppliers), its i-th entry
\* is derived from the i-th supplier of the backend, and it is empty when the
\* suppliers field is absent.
C16_TopFiveInOrder ==
  rendered.screen = "dashboard" =>
    LET absent == suppliers \notin SupplierBodies \/ ~suppliers.has_suppliers
        given == IF absent THEN <<>> ELSE suppliers.suppliers
        shown == rendered.data
    IN  /\ Len(shown) = Min(5, Len(given))
        /\ \A i \in 1..Len(shown) :
             /\ shown[i].name \in {given[i].supplier_name, given[i].supplier_id}
             /\ shown[i].name # ""
             /\ shown[i].value = given[i].total_deliveries
             /\ shown[i].rate = given[i].approval_rate
        /\ absent => shown = <<>>

\* six suppliers S1 S2 S2 S2 S2 S1 from the backend, five shown, in that order
C16_Witness ==
  /\ suppliers \in SupplierBodies
  /\ Len(suppliers.suppliers) = 6
  /\ suppliers.suppliers[1].supplier_id = "S1"
  /\ suppliers.suppliers[6].supplier_id = "S1"
  /\ \A i \in 2..5 : suppliers.suppliers[i].supplier_id = "S2"
  /\ Len(rendered.data) = 5
  /\ rendered.data[1].name = "Acme"
  /\ rendered.data[5].name = "S2"

\* the field a radar entry is read from
RadarSource(o, i) ==
  IF i = 1 THEN Field(o.production, "avg_yield")
  ELSE IF i = 2 THEN Field(o.quality, "pass_rate")
  ELSE IF i = 3 THEN Field(o.equipment, "calibration_pass_rate")
  ELSE Field(o.quality, "quality_score")

\* C17: radarData has exactly 4 entries in the order yield, QC pass rate,
\* calibration pass rate, quality score; each value is a number in [0,100],
\* the source's when it is a non-zero number and 0 when the field or an object
\* on its path is absent or falsy, never null or undefined.
C17_RadarFourNumbers ==
  rendered.screen = "dashboard" =>
    /\ Len(rendered.data) = 4
    /\ <<rendered.data[1].metric, rendered.data[2].metric, rendered.data[3].metric,
         rendered.data[4].metric>>
         = <<"Yield", "QC Pass", "Calibrations OK", "Quality Score">>
    /\ \A i \in 1..4 :
         LET src == RadarSource(overview, i)
         IN  /\ rendered.data[i].value.tag = "number"
             /\ rendered.data[i].value.n \in 0..100
             /\ rendered.data[i].fullMark = 100
             /\ (src.tag # "number" \/ src.n = 0) => rendered.data[i].value.n = 0
             /\ (src.tag = "number") => rendered.data[i].value.n = src.n

\* no production object, a null pass rate, calibration at 100, score at 50
C17_Witness ==
  /\ overview \in Overviews
  /\ ~overview.production.present
  /\ overview.quality.present
  /\ overview.quality.pass_rate = JsNull
  /\ Len(rendered.data) = 4
  /\ rendered.data[1].value = Num(0)
  /\ rendered.data[2].value = Num(0)
  /\ rendered.data[3].value = Num(100)
  /\ rendered.data[4].value = Num(50)


\* ------------------------------------------- claims: Analytics, overlapping loads
\* the invocation each published value comes from, 0 for null
FromCycle(v) == IF "cycle" \in DOMAIN v THEN v.cycle ELSE 0

PublishedFrom == {FromCycle(published[i]) : i \in 1..5}

AllSettled == \A k \in Cycles : joins[k] # "pending"

\* a cycle issued later settled before one issued earlier
Overlapped ==
  \E i, j \in 1..Len(settled) : i < j /\ settled[i] > settled[j]

\* C21: when load cycles overlap, each publishes its five results together,
\* and once they have all settled and one of them has published, the
\* view-model is entirely that of the cycle that settled last.
C21_LastToArriveWins ==
  /\ Cardinality(PublishedFrom) = 1
  /\ (AllSettled /\ Overlapped /\ \E k \in Cycles : joins[k] = "fulfilled")
       => PublishedFrom = {settled[Len(settled)]}

====
